---- MODULE Spec2Model ----
(***************************************************************************)
(* Transaction controller of the Prisma driver adapter for bun:sqlite.     *)
(*                                                                         *)
(* One PrismaBunSQLiteAdapter owns one Database connection and one         *)
(* async-mutex Mutex.  startTransaction() awaits the mutex, issues BEGIN   *)
(* and hands out a BunSQLiteTransaction whose commit()/rollback() issue    *)
(* COMMIT/ROLLBACK and call the releaser they were constructed with.       *)
(*                                                                         *)
(* JavaScript runs each synchronous segment to completion; the model has   *)
(* one action per segment, cut at the awaits that really suspend between   *)
(* two effects (the await on Mutex.acquire() in startTransaction and the   *)
(* await on getColumnTypes() in performIO).                                *)
(***************************************************************************)
EXTENDS Integers, Sequences, FiniteSets, TLC

\* Number of startTransaction() calls (and so of sessions) in a behaviour.
NCalls == 3

Calls == 1..NCalls

\* Who can have a queryRaw in flight: a session, or (0) the adapter itself.
Callers == 0..NCalls

VARIABLES
    pc,      \* pc[c]: where startTransaction call c stands
    state,   \* state[c]: BunSQLiteTransaction._state of the session call c returned
    locked,  \* the adapter's Mutex is held
    queue,   \* the Mutex's FIFO queue of waiting acquire() calls
    called,  \* called[c]: the releaser handed to call c has already run
    inTxn,   \* the engine has a transaction open on the connection
    qpc,     \* qpc[c]: the text of the queryRaw of session c suspended in performIO, or <<>>
    last     \* the segment that ran last: what was asked, sent and answered

vars == <<pc, state, locked, queue, called, inTxn, qpc, last>>

----------------------------------------------------------------------------
(* SQL text.  A text is a sequence of tokens; blanks are tokens too.       *)

Blank == " "

TxtCommit == <<"COMMIT">>
TxtCommitPadded == <<Blank, "commit", Blank>>
TxtCommitSemi == <<"COMMIT", ";">>
TxtRollback == <<"ROLLBACK">>
TxtUpdate == <<"UPDATE", Blank, "t">>
TxtSelectConst == <<"SELECT", Blank, "1">>
TxtSelectFrom == <<"select", Blank, "*", Blank, "from", Blank, "t">>

\* The texts given to executeRaw and to queryRaw.
ExecuteTexts == {TxtCommit, TxtCommitPadded, TxtCommitSemi, TxtRollback, TxtUpdate}
QueryTexts == {TxtSelectFrom, TxtSelectConst, TxtUpdate, TxtCommit}

SqlTexts == ExecuteTexts \cup QueryTexts

\* String.prototype.toUpperCase on one token.
UpperToken(t) ==
    CASE t = "commit" -> "COMMIT"
      [] t = "rollback" -> "ROLLBACK"
      [] t = "select" -> "SELECT"
      [] t = "from" -> "FROM"
      [] t = "integer" -> "INTEGER"
      [] t = "unsigned" -> "UNSIGNED"
      [] t = "varchar" -> "VARCHAR"
      [] OTHER -> t

ToUpperCase(s) == [i \in 1..Len(s) |-> UpperToken(s[i])]

RECURSIVE TrimStart(_)
TrimStart(s) ==
    IF s # <<>> /\ Head(s) = Blank THEN TrimStart(Tail(s)) ELSE s

RECURSIVE TrimEnd(_)
TrimEnd(s) ==
    IF s # <<>> /\ s[Len(s)] = Blank THEN TrimEnd(SubSeq(s, 1, Len(s) - 1)) ELSE s

\* String.prototype.trim
Trim(s) == TrimEnd(TrimStart(s))

\* query.sql.trim().toUpperCase() in BunSQLiteTransaction.executeRaw
NormalizedSql(s) == ToUpperCase(Trim(s))

\* /\bFROM\s+(...)/i matched against the text: a FROM keyword, blanks, a name.
GetTableFromQuery(s) ==
    \E i \in 1..Len(s) :
        /\ UpperToken(s[i]) = "FROM"
        /\ i + 2 <= Len(s)
        /\ s[i + 1] = Blank
        /\ s[i + 2] # Blank

----------------------------------------------------------------------------
(* The engine (bun:sqlite Database), as far as the adapter can observe it. *)

\* The statement the engine sees in a text: it ignores case, blanks and a
\* trailing semicolon.
EngineKind(s) ==
    LET u == NormalizedSql(s)
    IN  IF u = <<>> THEN "EMPTY"
        ELSE IF u[1] \in {"BEGIN", "COMMIT", "ROLLBACK", "SELECT"} THEN u[1]
        ELSE "WRITE"

\* stmt.columnNames.length > 0
HasColumns(s) == EngineKind(s) = "SELECT"

Ok == [ok |-> TRUE, err |-> "none"]
Fail(e) == [ok |-> FALSE, err |-> e]

\* What running a statement of this kind can answer in the current engine
\* state.  BEGIN inside a transaction and COMMIT/ROLLBACK outside one are
\* errors; COMMIT and ordinary statements can also find the database busy.
EngineOutcomes(kind) ==
    CASE kind = "BEGIN" -> IF inTxn THEN {Fail("SQLITE_ERROR")} ELSE {Ok}
      [] kind = "COMMIT" ->
            IF inTxn THEN {Ok, Fail("SQLITE_BUSY")} ELSE {Fail("SQLITE_ERROR")}
      [] kind = "ROLLBACK" -> IF inTxn THEN {Ok} ELSE {Fail("SQLITE_ERROR")}
      [] OTHER -> {Ok, Fail("SQLITE_BUSY")}

\* The engine's transaction flag after the statement answered `out`.
EngineAfter(kind, out) ==
    IF ~out.ok THEN inTxn
    ELSE CASE kind = "BEGIN" -> TRUE
           [] kind \in {"COMMIT", "ROLLBACK"} -> FALSE
           [] OTHER -> inTxn

----------------------------------------------------------------------------
(* Errors.  A native error is a record with a code and a message; a message *)
(* is a sequence of tokens, as SQL text is.                                 *)

\* Longest column list of a constraint message.
MaxFields == 2

Tables == {"users", "nonexistent_table"}
Columns == {"email", "id", "name"}

FieldLists == UNION {[1..n -> Columns] : n \in 1..MaxFields}

MsgUnique == "UNIQUE constraint failed:"
MsgPrimaryKey == "PRIMARY KEY constraint failed:"
MsgNotNull == "NOT NULL constraint failed:"
MsgNoSuchTable == "no such table:"
MsgNoSuchColumn == "no such column:"
MsgHasNoColumn == "has no column named"

MsgForeignKey == <<"FOREIGN KEY constraint failed">>
MsgUnknown == <<"some unknown error">>
MsgLocked == <<"database is locked">>
MsgLogic == <<"SQL logic error">>

\* The engine's list "t.a, t.b" of the columns of a violated constraint.
RECURSIVE QualifiedList(_, _)
QualifiedList(table, cols) ==
    IF Len(cols) = 1
    THEN <<table, ".", cols[1]>>
    ELSE <<table, ".", cols[1], ",", Blank>> \o QualifiedList(table, Tail(cols))

ConstraintMessage(prefix, table, cols) ==
    <<prefix, Blank>> \o QualifiedList(table, cols)

NoSuchTableMessage(table) == <<MsgNoSuchTable, Blank, table>>
NoSuchColumnMessage(col) == <<MsgNoSuchColumn, Blank, col>>
HasNoColumnMessage(table, col) ==
    <<"table", Blank, table, Blank, MsgHasNoColumn, Blank, col>>

Messages ==
    {ConstraintMessage(p, "users", f) :
        p \in {MsgUnique, MsgPrimaryKey, MsgNotNull}, f \in FieldLists}
    \cup {NoSuchTableMessage(t) : t \in Tables}
    \cup {NoSuchColumnMessage(c) : c \in Columns}
    \cup {HasNoColumnMessage(t, c) : t \in Tables, c \in Columns}
    \cup {MsgForeignKey, MsgUnknown, MsgLocked, MsgLogic}

Codes ==
    {"SQLITE_CONSTRAINT_UNIQUE", "SQLITE_CONSTRAINT_PRIMARYKEY",
     "SQLITE_CONSTRAINT_NOTNULL", "SQLITE_CONSTRAINT_FOREIGNKEY",
     "SQLITE_BUSY", "SQLITE_ERROR", "UNKNOWN_ERROR"}

\* Thrown values that do not have the shape {code, message}.
Malformed == {[someProperty |-> "value"], [message |-> MsgUnknown]}

NativeErrors == [code : Codes, message : Messages] \cup Malformed

\* What the translator answers: a record of the taxonomy, or the error it
\* was given, thrown again.
Translated(kind, detail) == [thrown |-> FALSE, kind |-> kind, detail |-> detail]
Rethrown(e) == [thrown |-> TRUE, kind |-> "none", detail |-> e]

\* Where the token `marker` stands in message m, or 0.
IndexOf(m, marker) ==
    IF \E i \in 1..Len(m) : m[i] = marker
    THEN CHOOSE i \in 1..Len(m) : m[i] = marker /\ \A j \in 1..(i - 1) : m[j] # marker
    ELSE 0

\* The text after the marker as it would be with the blank kept.
AfterKeepsBlank(m, marker) == SubSeq(m, IndexOf(m, marker) + 1, Len(m))

\* The text after the marker and the blank that follows it.
After(m, marker) == SubSeq(m, IndexOf(m, marker) + 2, Len(m))

\* The column names of a list "t.a, t.b": of each item, what follows its
\* last dot.
RECURSIVE FieldNames(_)
FieldNames(s) ==
    IF s = <<>> THEN <<>>
    ELSE IF Head(s) \in {",", Blank} THEN FieldNames(Tail(s))
    ELSE IF Len(s) = 1 \/ s[2] = "," THEN <<Head(s)>> \o FieldNames(Tail(s))
    ELSE FieldNames(Tail(s))

\* The fields as they would be if the list were kept as it stands.
ConstraintFieldsWhole(m) == SubSeq(m, 3, Len(m))

\* The fields of a constraint message: the list after "constraint failed: ".
ConstraintFields(m) ==
    IF \E p \in {MsgUnique, MsgPrimaryKey, MsgNotNull} : IndexOf(m, p) = 1
    THEN FieldNames(SubSeq(m, 3, Len(m)))
    ELSE <<>>

\* convertDriverError: the code decides first, then the message; what
\* matches neither, or lacks a code or a message, is thrown again as it is.
ConvertDriverError(e) ==
    IF "code" \notin DOMAIN e \/ "message" \notin DOMAIN e
    THEN Rethrown(e)
    ELSE CASE e.code = "SQLITE_BUSY" -> Translated("SocketTimeout", <<>>)
           [] e.code \in {"SQLITE_CONSTRAINT_UNIQUE", "SQLITE_CONSTRAINT_PRIMARYKEY"} ->
                Translated("UniqueConstraintViolation", ConstraintFields(e.message))
           [] e.code = "SQLITE_CONSTRAINT_NOTNULL" ->
                Translated("NullConstraintViolation", ConstraintFields(e.message))
           [] e.code = "SQLITE_CONSTRAINT_FOREIGNKEY" ->
                Translated("ForeignKeyConstraintViolation", <<>>)
           [] OTHER ->
                IF IndexOf(e.message, MsgNoSuchTable) = 1
                THEN Translated("TableDoesNotExist", After(e.message, MsgNoSuchTable))
                ELSE IF IndexOf(e.message, MsgNoSuchColumn) = 1
                THEN Translated("ColumnNotFound", After(e.message, MsgNoSuchColumn))
                ELSE IF IndexOf(e.message, MsgHasNoColumn) > 0
                THEN Translated("ColumnNotFound", After(e.message, MsgHasNoColumn))
                ELSE Rethrown(e)

\* onError as it would be if it answered instead of throwing.
OnErrorSwallows(e) == [thrown |-> FALSE, kind |-> "ok", detail |-> <<>>]

\* BunSQLiteQueryable.onError: throw new DriverAdapterError(convertDriverError(e));
\* an error the translator throws again leaves onError as it came.
OnErrorThrows(e) ==
    LET r == ConvertDriverError(e)
    IN  IF r.thrown THEN r ELSE [thrown |-> TRUE, kind |-> r.kind, detail |-> r.detail]

\* The error the engine raises with a code in the transaction controller.
NativeError(code) ==
    [code |-> code,
     message |-> IF code = "SQLITE_BUSY" THEN MsgLocked ELSE MsgLogic]

\* onError on the engine error with this code, as the caller sees it: the
\* kind of the DriverAdapterError, or the code of the error thrown again.
OnError(e) ==
    LET t == OnErrorThrows(NativeError(e))
    IN  IF t.kind = "none" THEN e ELSE t.kind

TransactionAlreadyClosed == "TransactionAlreadyClosed"
InvalidIsolationLevel == "InvalidIsolationLevel"

----------------------------------------------------------------------------
(* Isolation levels, as texts; <<>> is an omitted argument.                 *)

LvlNone == <<>>
LvlSerializable == <<"SERIALIZABLE">>
LvlReadCommitted == <<"READ COMMITTED">>
LvlSnapshot == <<"SNAPSHOT">>

Levels == {LvlNone, LvlSerializable, LvlReadCommitted, LvlSnapshot}

\* The level check as it would be if it listed one level to refuse.
LevelRejectedOnlyReadCommitted(level) == level = LvlReadCommitted

\* isolationLevel && isolationLevel !== "SERIALIZABLE"
LevelRejected(level) == level # <<>> /\ level # LvlSerializable

----------------------------------------------------------------------------
(* The record of the last segment.                                         *)

Report(op, tx, arg, result, err, ret, sent, unlock) ==
    [op |-> op, tx |-> tx, arg |-> arg, result |-> result, err |-> err,
     ret |-> ret, sent |-> sent, unlock |-> unlock]

Init ==
    /\ pc = [c \in Calls |-> "idle"]
    /\ state = [c \in Calls |-> "none"]
    /\ locked = FALSE
    /\ queue = <<>>
    /\ called = [c \in Calls |-> FALSE]
    /\ inTxn = FALSE
    /\ qpc = [c \in Callers |-> <<>>]
    /\ last = Report("new", 0, <<>>, "ok", "none", "void", <<>>, FALSE)

----------------------------------------------------------------------------
(* The Mutex (async-mutex): acquire() takes a free lock at once or joins a  *)
(* FIFO queue; the releaser it resolves to runs once and hands the lock to  *)
(* the head of the queue.  A call granted the lock continues after the      *)
(* await, in a later segment.                                               *)

\* Acquire as it would be if acquire() resolved without waiting for the holder.
AcquireNoWait(c) ==
    /\ locked' = TRUE
    /\ pc' = [pc EXCEPT ![c] = "granted"]
    /\ queue' = queue

\* this[LOCK_TAG].acquire() by call c
Acquire(c) ==
    IF ~locked
    THEN /\ locked' = TRUE
         /\ pc' = [pc EXCEPT ![c] = "granted"]
         /\ queue' = queue
    ELSE /\ locked' = locked
         /\ pc' = [pc EXCEPT ![c] = "waiting"]
         /\ queue' = Append(queue, c)

\* The releaser as it would be if it woke the newest waiter.
UnlockNewestFirst(c, pcBase) ==
    IF called[c]
    THEN /\ called' = called
         /\ locked' = locked
         /\ queue' = queue
         /\ pc' = pcBase
    ELSE /\ called' = [called EXCEPT ![c] = TRUE]
         /\ IF queue = <<>>
            THEN /\ locked' = FALSE
                 /\ queue' = queue
                 /\ pc' = pcBase
            ELSE /\ locked' = TRUE
                 /\ queue' = SubSeq(queue, 1, Len(queue) - 1)
                 /\ pc' = [pcBase EXCEPT ![queue[Len(queue)]] = "granted"]

\* release() / unlockParent() of call c; pcBase is pc with the caller's own
\* change already applied.
Unlock(c, pcBase) ==
    IF called[c]
    THEN /\ called' = called
         /\ locked' = locked
         /\ queue' = queue
         /\ pc' = pcBase
    ELSE /\ called' = [called EXCEPT ![c] = TRUE]
         /\ IF queue = <<>>
            THEN /\ locked' = FALSE
                 /\ queue' = queue
                 /\ pc' = pcBase
            ELSE /\ locked' = TRUE
                 /\ queue' = Tail(queue)
                 /\ pc' = [pcBase EXCEPT ![Head(queue)] = "granted"]

----------------------------------------------------------------------------
(* PrismaBunSQLiteAdapter.startTransaction                                  *)

\* catch { release(); ... } of startTransaction as it would be without release().
BeginFailedKeepsLock(c) ==
    /\ pc' = [pc EXCEPT ![c] = "rejected"]
    /\ UNCHANGED <<locked, queue, called>>

\* catch { release(); ... } of startTransaction: the call gives the lock back.
BeginFailedRelease(c) == Unlock(c, [pc EXCEPT ![c] = "rejected"])

\* First segment: the isolation-level check, then acquire().  The calls are
\* numbered in the order they are made.
StartTransaction(c, level) ==
    /\ pc[c] = "idle"
    /\ \A d \in Calls : d < c => pc[d] # "idle"
    /\ IF LevelRejected(level)
       THEN /\ last' = Report("startTransaction", c, level, InvalidIsolationLevel,
                              "none", "none", <<>>, FALSE)
            /\ UNCHANGED <<pc, state, locked, queue, called, inTxn, qpc>>
       ELSE /\ Acquire(c)
            /\ last' = Report("startTransaction", c, level, "pending",
                              "none", "none", <<>>, FALSE)
            /\ UNCHANGED <<state, called, inTxn, qpc>>

\* Second segment, once the lock is granted: BEGIN, then the session; a
\* failing BEGIN releases the lock and throws.
BeginTransaction(c) ==
    /\ pc[c] = "granted"
    /\ \E out \in EngineOutcomes("BEGIN") :
         /\ inTxn' = EngineAfter("BEGIN", out)
         /\ IF out.ok
            THEN /\ state' = [state EXCEPT ![c] = "active"]
                 /\ pc' = [pc EXCEPT ![c] = "returned"]
                 /\ last' = Report("startTransaction", c, <<>>, "ok", "none",
                                   "transaction", <<"BEGIN">>, FALSE)
                 /\ UNCHANGED <<locked, queue, called>>
            ELSE /\ BeginFailedRelease(c)
                 /\ last' = Report("startTransaction", c, <<>>, OnError(out.err),
                                   out.err, "none", <<"BEGIN">>, TRUE)
                 /\ UNCHANGED state
    /\ UNCHANGED qpc

----------------------------------------------------------------------------
(* BunSQLiteTransaction.  Session c exists once call c has returned it.     *)

HasSession(c) == pc[c] = "returned"

\* The guard of queryRaw and executeRaw as it would be if it tested one closed state.
TxClosedOnlyCommitted(c) == state[c] = "committed"

\* this._state !== 'active', the guard of queryRaw and executeRaw
TxClosed(c) == state[c] # "active"

\* The guard of commit as it would be if it tested one closed state.
CommitIgnoredOnlyCommitted(c) == state[c] = "committed"

\* this._state !== 'active', the guard of commit
CommitIgnored(c) == state[c] # "active"

\* The guard of rollback as it would be if it tested one closed state.
RollbackIgnoredOnlyRolledBack(c) == state[c] = "rolled_back"

\* this._state !== 'active', the guard of rollback
RollbackIgnored(c) == state[c] # "active"

\* The catch of commit as it would be if it kept the state of the try.
CommitFailedStateCommitted == "committed"

\* The state commit() leaves when the native COMMIT throws.
CommitFailedState == "rolled_back"

\* The state rollback() leaves when the native ROLLBACK throws.
RollbackFailedState == "rolled_back"

\* The release of commit as it would be inside the try, after COMMIT.
CommitUnlockInTry(c, out) ==
    IF out.ok THEN Unlock(c, pc) ELSE UNCHANGED <<pc, locked, queue, called>>

\* finally { this.unlockParent() } of commit: runs whatever COMMIT answered.
CommitFinally(c, out) == Unlock(c, pc)

\* The release of rollback as it would be inside the try, after ROLLBACK.
RollbackUnlockInTry(c, out) ==
    IF out.ok THEN Unlock(c, pc) ELSE UNCHANGED <<pc, locked, queue, called>>

\* finally { this.unlockParent() } of rollback: runs whatever ROLLBACK answered.
RollbackFinally(c, out) == Unlock(c, pc)

\* commit(), reported as operation op with argument arg; ret is what the
\* caller gets when it resolves.
CommitBody(c, op, arg, ret) ==
    IF CommitIgnored(c)
    THEN /\ last' = Report(op, c, arg, "ok", "none", ret, <<>>, FALSE)
         /\ UNCHANGED <<pc, state, locked, queue, called, inTxn>>
    ELSE \E out \in EngineOutcomes("COMMIT") :
            /\ inTxn' = EngineAfter("COMMIT", out)
            /\ state' = [state EXCEPT
                            ![c] = IF out.ok THEN "committed" ELSE CommitFailedState]
            /\ CommitFinally(c, out)
            /\ last' = IF out.ok
                       THEN Report(op, c, arg, "ok", "none", ret, <<"COMMIT">>, TRUE)
                       ELSE Report(op, c, arg, OnError(out.err), out.err,
                                   "none", <<"COMMIT">>, TRUE)

\* rollback(), reported as operation op with argument arg.
RollbackBody(c, op, arg, ret) ==
    IF RollbackIgnored(c)
    THEN /\ last' = Report(op, c, arg, "ok", "none", ret, <<>>, FALSE)
         /\ UNCHANGED <<pc, state, locked, queue, called, inTxn>>
    ELSE \E out \in EngineOutcomes("ROLLBACK") :
            /\ inTxn' = EngineAfter("ROLLBACK", out)
            /\ state' = [state EXCEPT
                            ![c] = IF out.ok THEN "rolled_back" ELSE RollbackFailedState]
            /\ RollbackFinally(c, out)
            /\ last' = IF out.ok
                       THEN Report(op, c, arg, "ok", "none", ret, <<"ROLLBACK">>, TRUE)
                       ELSE Report(op, c, arg, OnError(out.err), out.err,
                                   "none", <<"ROLLBACK">>, TRUE)

Commit(c) ==
    /\ HasSession(c)
    /\ CommitBody(c, "commit", <<>>, "void")
    /\ UNCHANGED qpc

Rollback(c) ==
    /\ HasSession(c)
    /\ RollbackBody(c, "rollback", <<>>, "void")
    /\ UNCHANGED qpc

\* BunSQLiteQueryable.executeIO: run the statement, answer its change count.
ExecuteIO(c, op, sql) ==
    \E out \in EngineOutcomes(EngineKind(sql)) :
        /\ inTxn' = EngineAfter(EngineKind(sql), out)
        /\ last' = IF out.ok
                   THEN Report(op, c, sql, "ok", "none", "changes",
                               <<EngineKind(sql)>>, FALSE)
                   ELSE Report(op, c, sql, OnError(out.err), out.err, "none",
                               <<EngineKind(sql)>>, FALSE)

\* executeRaw as it would be if a statement the engine refuses rolled the
\* session back.
ExecuteRawAbortsOnFailure(c, sql) ==
    /\ HasSession(c)
    /\ IF TxClosed(c)
       THEN /\ last' = Report("executeRaw", c, sql, TransactionAlreadyClosed,
                              "none", "none", <<>>, FALSE)
            /\ UNCHANGED <<pc, state, locked, queue, called, inTxn>>
       ELSE IF NormalizedSql(sql) = <<"COMMIT">>
       THEN CommitBody(c, "executeRaw", sql, "0")
       ELSE IF NormalizedSql(sql) = <<"ROLLBACK">>
       THEN RollbackBody(c, "executeRaw", sql, "0")
       ELSE /\ ExecuteIO(c, "executeRaw", sql)
            /\ IF last'.err = "none"
               THEN UNCHANGED <<pc, state, locked, queue, called>>
               ELSE /\ state' = [state EXCEPT ![c] = "rolled_back"]
                    /\ Unlock(c, pc)
    /\ UNCHANGED qpc

\* BunSQLiteTransaction.executeRaw
ExecuteRaw(c, sql) ==
    /\ HasSession(c)
    /\ IF TxClosed(c)
       THEN /\ last' = Report("executeRaw", c, sql, TransactionAlreadyClosed,
                              "none", "none", <<>>, FALSE)
            /\ UNCHANGED <<pc, state, locked, queue, called, inTxn>>
       ELSE IF NormalizedSql(sql) = <<"COMMIT">>
       THEN CommitBody(c, "executeRaw", sql, "0")
       ELSE IF NormalizedSql(sql) = <<"ROLLBACK">>
       THEN RollbackBody(c, "executeRaw", sql, "0")
       ELSE /\ ExecuteIO(c, "executeRaw", sql)
            /\ UNCHANGED <<pc, state, locked, queue, called>>
    /\ UNCHANGED qpc

\* queryRaw up to the first suspension of performIO: a statement without
\* result columns is run at once; one with a FROM table first looks the
\* table up in the catalog and awaits that; any other is read at once.
QueryRaw(c, sql) ==
    /\ HasSession(c)
    /\ qpc[c] = <<>>
    /\ IF TxClosed(c)
       THEN /\ last' = Report("queryRaw", c, sql, TransactionAlreadyClosed,
                              "none", "none", <<>>, FALSE)
            /\ UNCHANGED <<inTxn, qpc>>
       ELSE IF HasColumns(sql) /\ GetTableFromQuery(sql)
       THEN /\ qpc' = [qpc EXCEPT ![c] = sql]
            /\ last' = Report("queryRaw", c, sql, "pending", "none", "none",
                              <<"PRAGMA">>, FALSE)
            /\ UNCHANGED inTxn
       ELSE /\ \E out \in EngineOutcomes(EngineKind(sql)) :
                /\ inTxn' = EngineAfter(EngineKind(sql), out)
                /\ last' = IF out.ok
                           THEN Report("queryRaw", c, sql, "ok", "none", "resultset",
                                       <<EngineKind(sql)>>, FALSE)
                           ELSE Report("queryRaw", c, sql, OnError(out.err), out.err,
                                       "none", <<EngineKind(sql)>>, FALSE)
            /\ UNCHANGED qpc
    /\ UNCHANGED <<pc, state, locked, queue, called>>

\* performIO resumed after the catalog lookup: stmt.values() reads the rows.
QueryRawResume(c) ==
    /\ qpc[c] # <<>>
    /\ \E out \in EngineOutcomes(EngineKind(qpc[c])) :
        /\ inTxn' = EngineAfter(EngineKind(qpc[c]), out)
        /\ last' = IF out.ok
                   THEN Report("queryRaw/resume", c, qpc[c], "ok", "none", "resultset",
                               <<EngineKind(qpc[c])>>, FALSE)
                   ELSE Report("queryRaw/resume", c, qpc[c], OnError(out.err), out.err,
                               "none", <<EngineKind(qpc[c])>>, FALSE)
    /\ qpc' = [qpc EXCEPT ![c] = <<>>]
    /\ UNCHANGED <<pc, state, locked, queue, called>>

----------------------------------------------------------------------------

Next ==
    \/ \E c \in Calls, level \in Levels : StartTransaction(c, level)
    \/ \E c \in Calls : BeginTransaction(c)
    \/ \E c \in Calls : Commit(c)
    \/ \E c \in Calls : Rollback(c)
    \/ \E c \in Calls, sql \in ExecuteTexts : ExecuteRaw(c, sql)
    \/ \E c \in Calls, sql \in QueryTexts : QueryRaw(c, sql)
    \/ \E c \in Calls : QueryRawResume(c)

Spec == Init /\ [][Next]_vars

\* A session's owner ending it: commit() or rollback() on an active session.
EndSession(c) == state[c] = "active" /\ (Commit(c) \/ Rollback(c))

\* The event loop runs every continuation it holds (the BEGIN of a granted
\* call, the read of a resumed queryRaw), and every owner of an active
\* session ends it.
Fairness ==
    \A c \in Calls :
        /\ WF_vars(BeginTransaction(c))
        /\ WF_vars(QueryRawResume(c))
        /\ WF_vars(EndSession(c))

FairSpec == Spec /\ Fairness

----------------------------------------------------------------------------
(* PrismaBunSQLiteAdapter.executeScript on its own.  A script is a sequence *)
(* of tokens: statements, each with its semicolon, and blanks between them. *)

\* Longest script.
MaxScript == 3

StmtInsert == "INSERT INTO t VALUES (1);"
StmtInsertNoTable == "INSERT INTO nonexistent_table VALUES (1);"
StmtBegin == "BEGIN;"
StmtCommit == "COMMIT;"

ScriptTokens == {Blank, StmtInsert, StmtInsertNoTable, StmtBegin, StmtCommit}

Scripts == UNION {[1..n -> ScriptTokens] : n \in 0..MaxScript}

\* The statements the engine finds in a script.
RECURSIVE Statements(_)
Statements(script) ==
    IF script = <<>> THEN <<>>
    ELSE IF Head(script) = Blank THEN Statements(Tail(script))
    ELSE <<Head(script)>> \o Statements(Tail(script))

\* The statement fails when run with the engine's transaction flag at txn.
StatementFails(stmt, txn) ==
    \/ stmt = StmtInsertNoTable
    \/ stmt = StmtBegin /\ txn
    \/ stmt = StmtCommit /\ ~txn

StatementError(stmt) ==
    IF stmt = StmtInsertNoTable
    THEN [code |-> "SQLITE_ERROR", message |-> NoSuchTableMessage("nonexistent_table")]
    ELSE NativeError("SQLITE_ERROR")

TxnAfter(stmt, txn) ==
    CASE stmt = StmtBegin -> TRUE
      [] stmt = StmtCommit -> FALSE
      [] OTHER -> txn

\* this.db.exec(script): the engine runs the statements in order and stops at
\* the first that fails; what ran before it stays done.
RECURSIVE DbExec(_, _)
DbExec(stmts, txn) ==
    IF stmts = <<>> THEN [ran |-> <<>>, failed |-> FALSE, txn |-> txn]
    ELSE IF StatementFails(Head(stmts), txn)
    THEN [ran |-> <<Head(stmts)>>, failed |-> TRUE, txn |-> txn]
    ELSE LET r == DbExec(Tail(stmts), TxnAfter(Head(stmts), txn))
         IN  [ran |-> <<Head(stmts)>> \o r.ran, failed |-> r.failed, txn |-> r.txn]

\* The test for an empty script as it would be without trim().
ScriptIsEmptyNoTrim(script) == script = <<>>

\* script.trim() === ""
ScriptIsEmpty(script) == Trim(script) = <<>>

\* onError on error e, as the caller sees it: the kind of the
\* DriverAdapterError, or the code of the error thrown again.
Surfaced(e) ==
    LET t == OnErrorThrows(e) IN IF t.kind = "none" THEN e.code ELSE t.kind

ExecuteScript(script) ==
    /\ IF ScriptIsEmpty(script)
       THEN /\ last' = Report("executeScript", 0, script, "ok", "none", "void",
                              <<>>, FALSE)
            /\ UNCHANGED inTxn
       ELSE LET r == DbExec(Statements(script), inTxn)
                e == StatementError(r.ran[Len(r.ran)])
            IN  /\ inTxn' = r.txn
                /\ last' = IF r.failed
                           THEN Report("executeScript", 0, script, Surfaced(e), e.code,
                                       "none", <<"exec">> \o r.ran, FALSE)
                           ELSE Report("executeScript", 0, script, "ok", "none", "void",
                                       <<"exec">> \o r.ran, FALSE)
    /\ UNCHANGED <<pc, state, locked, queue, called, qpc>>

ScriptNext == \E script \in Scripts : ExecuteScript(script)

----------------------------------------------------------------------------
(* queryRaw, executeRaw and executeScript called on the adapter itself,     *)
(* next to the sessions.                                                    *)

\* The scripts given to the adapter next to the sessions.
AdapterScripts == {<<Blank>>, <<StmtInsert>>, <<StmtInsertNoTable>>, <<StmtCommit>>}

\* executeRaw of the adapter as it would be if it asked for the lock: it
\* joins the queue while a session holds it.
AdapterExecuteRawLocked(sql) ==
    IF locked
    THEN /\ queue' = Append(queue, 0)
         /\ last' = Report("executeRaw", 0, sql, "pending", "none", "none",
                           <<>>, FALSE)
         /\ UNCHANGED <<pc, state, locked, called, inTxn, qpc>>
    ELSE /\ ExecuteIO(0, "executeRaw", sql)
         /\ UNCHANGED <<pc, state, locked, queue, called, qpc>>

\* BunSQLiteQueryable.executeRaw on the adapter
AdapterExecuteRaw(sql) ==
    /\ ExecuteIO(0, "executeRaw", sql)
    /\ UNCHANGED <<pc, state, locked, queue, called, qpc>>

\* BunSQLiteQueryable.queryRaw on the adapter, up to the first suspension of
\* performIO.
AdapterQueryRaw(sql) ==
    /\ qpc[0] = <<>>
    /\ IF HasColumns(sql) /\ GetTableFromQuery(sql)
       THEN /\ qpc' = [qpc EXCEPT ![0] = sql]
            /\ last' = Report("queryRaw", 0, sql, "pending", "none", "none",
                              <<"PRAGMA">>, FALSE)
            /\ UNCHANGED inTxn
       ELSE /\ \E out \in EngineOutcomes(EngineKind(sql)) :
                /\ inTxn' = EngineAfter(EngineKind(sql), out)
                /\ last' = IF out.ok
                           THEN Report("queryRaw", 0, sql, "ok", "none", "resultset",
                                       <<EngineKind(sql)>>, FALSE)
                           ELSE Report("queryRaw", 0, sql, OnError(out.err), out.err,
                                       "none", <<EngineKind(sql)>>, FALSE)
            /\ UNCHANGED qpc
    /\ UNCHANGED <<pc, state, locked, queue, called>>

\* performIO of the adapter's queryRaw resumed after the catalog lookup.
AdapterQueryRawResume == QueryRawResume(0)

\* PrismaBunSQLiteAdapter.executeScript next to the sessions.
AdapterExecuteScript(script) == ExecuteScript(script)

AdapterNext ==
    \/ Next
    \/ \E sql \in ExecuteTexts : AdapterExecuteRaw(sql)
    \/ \E sql \in QueryTexts : AdapterQueryRaw(sql)
    \/ AdapterQueryRawResume
    \/ \E script \in AdapterScripts : AdapterExecuteScript(script)

AdapterSpec == Init /\ [][AdapterNext]_vars

ScriptSpec == Init /\ [][ScriptNext]_vars

----------------------------------------------------------------------------
(* Column types of a result.  The engine gives the result columns and the   *)
(* rows; the catalog gives the declared type of each column, when the text  *)
(* names a table.  Columns are named by their position.                     *)

\* Most columns of a result, most rows of a result.
MaxCols == 2
MaxRows == 2

\* Most values of the one column given to the inferencer.
MaxValues == 3

\* JavaScript null, where a declared type is expected.
Null == <<"<null>">>

\* What PRAGMA table_info answers for a column, token by token; the empty text
\* when the column has no type there.
CatalogTypes == {<<>>, <<"TEXT">>, <<"INTEGER">>, <<"GEOMETRY">>}

\* The type names a column can be declared with; GEOMETRY stands for a name
\* the resolver does not know.
TypeNames ==
    {"TEXT", "VARCHAR", "CHAR", "CHARACTER", "NCHAR", "NVARCHAR", "CLOB",
     "INT", "INTEGER", "TINYINT", "SMALLINT", "MEDIUMINT", "BIGINT",
     "REAL", "DOUBLE", "FLOAT", "NUMERIC", "DECIMAL", "BOOLEAN", "BOOL",
     "DATE", "DATETIME", "TIMESTAMP", "BLOB", "JSON", "JSONB", "GEOMETRY"}

\* A length or precision specifier, as one token each.
Specifiers == {"(10)", "(255)", "(10,2)"}

\* The declared types the resolver is given: a name, with or without a
\* specifier, with or without the UNSIGNED qualifier; two-word and lower-case
\* spellings; the empty text.
DeclTexts ==
    {<<n>> \o p \o u : n \in TypeNames, p \in {<<>>, <<"(10)">>},
                       u \in {<<>>, <<Blank, "UNSIGNED">>}}
    \cup {<<"DOUBLE", Blank, "PRECISION">>, <<"VARCHAR", "(255)">>,
          <<"DECIMAL", "(10,2)">>, <<"integer", Blank, "unsigned">>,
          <<"varchar", "(255)">>, <<>>}

\* The lookup found no FROM table, threw, or answered.
CatalogStates == {"none", "fails", "ok"}

VNull == [t |-> "null"]
VInt == [t |-> "number", whole |-> 42, tenths |-> 0]
VFrac == [t |-> "number", whole |-> 42, tenths |-> 5]
\* A string is the sequence of its characters.
VStr == [t |-> "string", v |-> <<"h", "e", "l", "l", "o">>]
VBytes == [t |-> "bytes", v |-> <<1, 2, 3>>]

\* A 64-bit integer is the sequence of its limbs to the base 10^8, the most
\* significant first: BigInt(9007199254740991) is 90071992 * 10^8 + 54740991.
Limb == 100000000
VBigBound == [t |-> "bigint", limbs |-> <<90071992, 54740991>>]
VBigBeyond == [t |-> "bigint", limbs |-> <<90071992, 54740992>>]

RowValues == {VNull, VFrac, VStr}

InferValues == {VNull, VInt, VStr, VBytes, VBigBound, VBigBeyond}

\* A statement, as queryRaw meets it: whether its text names a table and
\* what the lookup does, the declared types of its result columns, and the
\* rows it gives.  A statement without result columns gives no rows.
TypeInputs ==
    UNION {UNION {[catalog : CatalogStates,
                   types : [1..n -> CatalogTypes],
                   rows : [1..m -> [1..n -> RowValues]]] :
                  m \in 0..(IF n = 0 THEN 0 ELSE MaxRows)} :
           n \in 0..MaxCols}

Unresolved == "unresolved"

\* The declared type without its length or precision specifier.
StripSpecifier(d) == SelectSeq(d, LAMBDA t : t \notin Specifiers)

\* The UNSIGNED qualifier is present.
IsUnsigned(d) == \E i \in 1..Len(d) : UpperToken(d[i]) = "UNSIGNED"

\* The declared type without the UNSIGNED qualifier.
StripUnsigned(d) == Trim(SelectSeq(d, LAMBDA t : t # "UNSIGNED"))

\* The name the mapping is looked up with: upper case, no specifier, no
\* qualifier.
BaseType(d) == StripUnsigned(StripSpecifier(ToUpperCase(d)))

\* The declared-type resolver.
MapDeclType(d) ==
    LET b == BaseType(d)
    IN  CASE b \in {<<"TEXT">>, <<"VARCHAR">>, <<"CHAR">>, <<"CHARACTER">>,
                    <<"NCHAR">>, <<"NVARCHAR">>, <<"CLOB">>} -> "Text"
          [] b \in {<<"INT">>, <<"INTEGER">>, <<"TINYINT">>, <<"SMALLINT">>,
                    <<"MEDIUMINT">>} -> "Int32"
          [] b = <<"BIGINT">> -> "Int64"
          [] b \in {<<"REAL">>, <<"DOUBLE">>,
                    <<"DOUBLE", Blank, "PRECISION">>} -> "Double"
          [] b = <<"FLOAT">> -> "Float"
          [] b \in {<<"NUMERIC">>, <<"DECIMAL">>} -> "Numeric"
          [] b \in {<<"BOOLEAN">>, <<"BOOL">>} -> "Boolean"
          [] b \in {<<"DATE">>, <<"DATETIME">>, <<"TIMESTAMP">>} -> "DateTime"
          [] b = <<"BLOB">> -> "Bytes"
          [] b \in {<<"JSON">>, <<"JSONB">>} -> "Json"
          [] OTHER -> Unresolved

\* The inferencer as it would be if the first value that is not null decided.
RECURSIVE InferTypeFirstValue(_)
InferTypeFirstValue(values) ==
    IF values = <<>> THEN "Int32"
    ELSE CASE Head(values).t = "null" -> InferTypeFirstValue(Tail(values))
           [] Head(values).t = "bytes" -> "Bytes"
           [] Head(values).t = "bigint" -> "Int64"
           [] Head(values).t = "number" -> "UnknownNumber"
           [] OTHER -> "Text"

\* The inferencer as it would be if a column without values were Text.
InferTypeEmptyText(values) ==
    IF values = <<>> THEN "Text"
    ELSE IF \A i \in 1..Len(values) : values[i].t = "null" THEN "Int32"
    ELSE IF \E i \in 1..Len(values) : values[i].t = "bytes" THEN "Bytes"
    ELSE IF \E i \in 1..Len(values) : values[i].t = "bigint" THEN "Int64"
    ELSE IF \A i \in 1..Len(values) : values[i].t \in {"null", "number"}
    THEN "UnknownNumber"
    ELSE "Text"

\* The value-based inferencer, over all the values of one column.
InferType(values) ==
    IF \A i \in 1..Len(values) : values[i].t = "null" THEN "Int32"
    ELSE IF \E i \in 1..Len(values) : values[i].t = "bytes" THEN "Bytes"
    ELSE IF \E i \in 1..Len(values) : values[i].t = "bigint" THEN "Int64"
    ELSE IF \A i \in 1..Len(values) : values[i].t \in {"null", "number"}
    THEN "UnknownNumber"
    ELSE "Text"

\* The values of column i, row by row.
Column(rows, i) == [r \in 1..Len(rows) |-> rows[r][i]]

\* getColumnTypes(declaredTypes, rows) of the conversion module: per column
\* the resolved declared type, or else the inferred one.
GetColumnTypes(declaredTypes, rows) ==
    [i \in 1..Len(declaredTypes) |->
        IF MapDeclType(declaredTypes[i]) # Unresolved
        THEN MapDeclType(declaredTypes[i])
        ELSE InferType(Column(rows, i))]

\* The decimal digits as characters.
Digits == <<"0", "1", "2", "3", "4", "5", "6", "7", "8", "9">>

IsDigit(c) == \E d \in 1..10 : Digits[d] = c

DigitValue(c) == (CHOOSE d \in 1..10 : Digits[d] = c) - 1

\* The decimal digits of a natural number, without leading zeros.
RECURSIVE ToDigits(_)
ToDigits(n) ==
    IF n < 10 THEN <<Digits[n + 1]>>
    ELSE Append(ToDigits(n \div 10), Digits[(n % 10) + 1])

\* The decimal digits of n in at least w places.
RECURSIVE PadStart(_, _)
PadStart(digits, w) ==
    IF Len(digits) >= w THEN digits ELSE PadStart(<<"0">> \o digits, w)

\* The number a run of digits stands for.
RECURSIVE ToNumber(_)
ToNumber(digits) ==
    IF digits = <<>> THEN 0
    ELSE 10 * ToNumber(SubSeq(digits, 1, Len(digits) - 1))
         + DigitValue(digits[Len(digits)])

\* BigInt.prototype.toString: every decimal digit of the value.
RECURSIVE LimbDigits(_)
LimbDigits(limbs) ==
    IF limbs = <<>> THEN <<>>
    ELSE PadStart(ToDigits(Head(limbs)), 8) \o LimbDigits(Tail(limbs))

\* The 64-bit integer as it would be written after a conversion to a double:
\* from 2^53 on only every second integer is a double.
BigIntViaNumber(v) ==
    LET n == Len(v.limbs)
        low == v.limbs[n]
        beyond == n > 2 \/ (n = 2 /\ (v.limbs[1] > 90071992
                                      \/ (v.limbs[1] = 90071992 /\ low > 54740992)))
        rounded == IF beyond THEN [v EXCEPT !.limbs[n] = low - (low % 2)] ELSE v
    IN  [t |-> "string",
         v |-> ToDigits(Head(rounded.limbs)) \o LimbDigits(Tail(rounded.limbs))]

BigIntToString(v) ==
    [t |-> "string", v |-> ToDigits(Head(v.limbs)) \o LimbDigits(Tail(v.limbs))]

\* An instant: the day since 1970-01-01 and the millisecond of that day.
DayMs == 86400000

\* Days since 1970-01-01 of a civil date.
DaysFromCivil(y, m, d) ==
    LET yy == IF m <= 2 THEN y - 1 ELSE y
        era == yy \div 400
        yoe == yy - era * 400
        mp == IF m > 2 THEN m - 3 ELSE m + 9
        doy == ((153 * mp + 2) \div 5) + d - 1
        doe == yoe * 365 + (yoe \div 4) - (yoe \div 100) + doy
    IN  era * 146097 + doe - 719468

\* The civil date of a day since 1970-01-01.
CivilFromDays(z) ==
    LET zz == z + 719468
        era == zz \div 146097
        doe == zz - era * 146097
        yoe == (doe - (doe \div 1460) + (doe \div 36524) - (doe \div 146096)) \div 365
        doy == doe - (365 * yoe + (yoe \div 4) - (yoe \div 100))
        mp == (5 * doy + 2) \div 153
        d == doy - ((153 * mp + 2) \div 5) + 1
        m == IF mp < 10 THEN mp + 3 ELSE mp - 9
    IN  [y |-> yoe + era * 400 + (IF m <= 2 THEN 1 ELSE 0), m |-> m, d |-> d]

\* All of the characters from i to j are digits.
AllDigits(s, i, j) == \A k \in i..j : IsDigit(s[k])

\* What follows the seconds: an optional fraction of three digits.
HasFraction(s) == Len(s) >= 23 /\ s[20] = "." /\ AllDigits(s, 21, 23)

\* What follows the seconds and the fraction: nothing, Z, or a signed hh:mm.
Zone(s) == SubSeq(s, IF HasFraction(s) THEN 24 ELSE 20, Len(s))

IsZone(z) ==
    \/ z = <<>>
    \/ z = <<"Z">>
    \/ /\ Len(z) = 6
       /\ z[1] \in {"+", "-"}
       /\ AllDigits(z, 2, 3) /\ z[4] = ":" /\ AllDigits(z, 5, 6)
       /\ ToNumber(SubSeq(z, 2, 3)) <= 23 /\ ToNumber(SubSeq(z, 5, 6)) <= 59

\* The minutes the zone is ahead of UTC, as they would be if the offset were
\* not read.
OffsetIgnored(z) == 0

\* The minutes the zone is ahead of UTC; a text without zone is read as UTC.
Offset(z) ==
    IF Len(z) = 6
    THEN (IF z[1] = "-" THEN -1 ELSE 1)
         * (60 * ToNumber(SubSeq(z, 2, 3)) + ToNumber(SubSeq(z, 5, 6)))
    ELSE 0

\* The text is a date and a time of day: YYYY-MM-DD, a blank or T, hh:mm:ss,
\* an optional fraction and an optional zone, all fields in range.
IsDateTimeText(s) ==
    /\ Len(s) >= 19
    /\ AllDigits(s, 1, 4) /\ s[5] = "-" /\ AllDigits(s, 6, 7) /\ s[8] = "-"
    /\ AllDigits(s, 9, 10) /\ s[11] \in {Blank, "T"}
    /\ AllDigits(s, 12, 13) /\ s[14] = ":" /\ AllDigits(s, 15, 16)
    /\ s[17] = ":" /\ AllDigits(s, 18, 19)
    /\ IsZone(Zone(s))
    /\ ToNumber(SubSeq(s, 6, 7)) \in 1..12
    /\ ToNumber(SubSeq(s, 9, 10)) \in 1..31
    /\ ToNumber(SubSeq(s, 12, 13)) <= 23
    /\ ToNumber(SubSeq(s, 15, 16)) <= 59
    /\ ToNumber(SubSeq(s, 18, 19)) <= 59

\* An instant brought into range: the millisecond within the day.
Normalized(days, ms) ==
    [days |-> days + (ms \div DayMs), ms |-> ms % DayMs]

\* Date.parse of a date and time text.
ParseDateTime(s) ==
    Normalized(DaysFromCivil(ToNumber(SubSeq(s, 1, 4)), ToNumber(SubSeq(s, 6, 7)),
                             ToNumber(SubSeq(s, 9, 10))),
               ((ToNumber(SubSeq(s, 12, 13)) * 60 + ToNumber(SubSeq(s, 15, 16))) * 60
                + ToNumber(SubSeq(s, 18, 19))) * 1000
               + (IF HasFraction(s) THEN ToNumber(SubSeq(s, 21, 23)) ELSE 0)
               - Offset(Zone(s)) * 60000)

\* new Date(ms) for a number of milliseconds since the epoch.
NumberToInstant(v) == Normalized(0, v.whole)

\* A 64-bit count of milliseconds that a Date can hold: no more than
\* 8640000000000000.
InDateRange(v) ==
    \/ Len(v.limbs) = 1
    \/ Len(v.limbs) = 2 /\ (v.limbs[1] < 86400000
                             \/ (v.limbs[1] = 86400000 /\ v.limbs[2] = 0))

\* new Date(Number(ms)) for a 64-bit count of milliseconds since the epoch:
\* the day is the count divided by 864 * 10^5, limb by limb.
BigIntToInstant(v) ==
    LET n == Len(v.limbs)
        low == v.limbs[n]
        high == IF n = 1 THEN 0 ELSE v.limbs[n - 1]
        rest == (high % 864) * 1000 + (low \div 100000)
    IN  [days |-> (high \div 864) * 1000 + (rest \div 864),
         ms |-> (rest % 864) * 100000 + (low % 100000)]

\* Date.prototype.toISOString: YYYY-MM-DDTHH:mm:ss.sssZ
ToISOString(i) ==
    LET c == CivilFromDays(i.days)
        secs == i.ms \div 1000
    IN  [t |-> "string",
         v |-> PadStart(ToDigits(c.y), 4) \o <<"-">> \o PadStart(ToDigits(c.m), 2)
               \o <<"-">> \o PadStart(ToDigits(c.d), 2) \o <<"T">>
               \o PadStart(ToDigits(secs \div 3600), 2) \o <<":">>
               \o PadStart(ToDigits((secs \div 60) % 60), 2) \o <<":">>
               \o PadStart(ToDigits(secs % 60), 2) \o <<".">>
               \o PadStart(ToDigits(i.ms % 1000), 3) \o <<"Z">>]

\* One value of a DateTime column.
MapDateTime(v) ==
    CASE v.t = "number" -> ToISOString(NumberToInstant(v))
      [] v.t = "bigint" -> ToISOString(BigIntToInstant(v))
      [] v.t = "string" -> IF IsDateTimeText(v.v) THEN ToISOString(ParseDateTime(v.v))
                           ELSE v
      [] OTHER -> v

\* One value marshalled for its column type.
MapValue(v, type) ==
    CASE v.t = "null" -> v
      [] v.t = "bytes" /\ type = "Bytes" -> [t |-> "array", v |-> v.v]
      [] v.t = "number" /\ type \in {"Int32", "Int64"} -> [v EXCEPT !.tenths = 0]
      [] type = "DateTime" -> MapDateTime(v)
      [] v.t = "bigint" -> BigIntToString(v)
      [] OTHER -> v

\* mapRow(row, columnTypes)
MapRow(row, columnTypes) == [i \in 1..Len(row) |-> MapValue(row[i], columnTypes[i])]

\* The declared types as they would be if the catalog were never asked.
DeclaredTypesNoCatalog(in) == [i \in 1..Len(in.types) |-> Null]

\* The declared types performIO hands on: typeMap.get(name) || null for each
\* column when the text names a table and the lookup answers, null otherwise.
DeclaredTypes(in) ==
    [i \in 1..Len(in.types) |->
        IF in.catalog = "ok" /\ in.types[i] # <<>> THEN in.types[i] ELSE Null]

\* performIO as it would be without the test for a statement without
\* result columns.
PerformIONoShortCircuit(in) ==
    [columnNames |-> [i \in 1..Len(in.types) |-> i],
     declaredTypes |-> DeclaredTypes(in),
     values |-> in.rows,
     calls |-> (IF in.catalog = "none" THEN <<>> ELSE <<"PRAGMA">>) \o <<"values">>]

\* performIO: a statement without result columns is run and answers three
\* empty lists; any other has its table looked up, when its text names one,
\* and its rows read.  calls lists what is asked of the engine.
PerformIO(in) ==
    IF Len(in.types) = 0
    THEN [columnNames |-> <<>>, declaredTypes |-> <<>>, values |-> <<>>,
          calls |-> <<"run">>]
    ELSE [columnNames |-> [i \in 1..Len(in.types) |-> i],
          declaredTypes |-> DeclaredTypes(in),
          values |-> in.rows,
          calls |-> (IF in.catalog = "none" THEN <<>> ELSE <<"PRAGMA">>)
                    \o <<"values">>]

\* queryRaw: the types once, from all rows, then every row mapped with them.
QueryRawResult(in) ==
    LET io == PerformIO(in)
        columnTypes == GetColumnTypes(io.declaredTypes, io.values)
    IN  [columnNames |-> io.columnNames,
         columnTypes |-> columnTypes,
         rows |-> [r \in 1..Len(io.values) |-> MapRow(io.values[r], columnTypes)]]

TypeInit ==
    /\ pc = [c \in Calls |-> "idle"]
    /\ state = [c \in Calls |-> "none"]
    /\ locked = FALSE
    /\ queue = <<>>
    /\ called = [c \in Calls |-> FALSE]
    /\ inTxn = FALSE
    /\ qpc = [c \in Callers |-> <<>>]
    /\ \E in \in TypeInputs :
          last = Report("query", 0, in, "pending", "none", "none", <<>>, FALSE)

\* The lookup as it would be without its catch: a failure of the PRAGMA
\* statement rejects the query.
LookupRejectsUncaught(in) == in.catalog = "fails"

\* getColumnTypes of the adapter catches whatever the PRAGMA statement
\* throws, so the lookup never rejects.
LookupRejects(in) == FALSE

QueryResult ==
    /\ last.op = "query"
    /\ last' = IF LookupRejects(last.arg)
               THEN Report("queryRaw", 0, last.arg, "none", OnError("SQLITE_ERROR"),
                           "rejected", <<>>, FALSE)
               ELSE Report("queryRaw", 0, last.arg, QueryRawResult(last.arg), "none",
                           "resultset", PerformIO(last.arg).calls, FALSE)
    /\ UNCHANGED <<pc, state, locked, queue, called, inTxn, qpc>>

TypeSpec == TypeInit /\ [][QueryResult]_vars

\* The inferencer on its own: one column without a declared type.
InferInit ==
    /\ pc = [c \in Calls |-> "idle"]
    /\ state = [c \in Calls |-> "none"]
    /\ locked = FALSE
    /\ queue = <<>>
    /\ called = [c \in Calls |-> FALSE]
    /\ inTxn = FALSE
    /\ qpc = [c \in Callers |-> <<>>]
    /\ \E n \in 0..MaxValues : \E values \in [1..n -> InferValues] :
          last = Report("column", 0, values, "pending", "none", "none", <<>>, FALSE)

Infer ==
    /\ last.op = "column"
    /\ last' = Report("getColumnTypes", 0, last.arg,
                      GetColumnTypes(<<Null>>, [r \in 1..Len(last.arg) |-> <<last.arg[r]>>]),
                      "none", "none", <<>>, FALSE)
    /\ UNCHANGED <<pc, state, locked, queue, called, inTxn, qpc>>

InferSpec == InferInit /\ [][Infer]_vars

\* The row marshaller on its own: a row of one value and its column type.
ColumnTypes ==
    {"Int32", "Int64", "Float", "Double", "Numeric", "Boolean", "Text",
     "DateTime", "Json", "Bytes", "UnknownNumber"}

\* 64-bit integers: 1, 123456789, 10^8 + 5, the count of milliseconds
\* 1640995200000 and 2^63 - 1.
VBigOne == [t |-> "bigint", limbs |-> <<1>>]
VBigSmall == [t |-> "bigint", limbs |-> <<1, 23456789>>]
VBigPadded == [t |-> "bigint", limbs |-> <<1, 5>>]
VBigEpoch == [t |-> "bigint", limbs |-> <<16409, 95200000>>]
VBigMax == [t |-> "bigint", limbs |-> <<922, 33720368, 54775807>>]

\* A number of milliseconds since the epoch: 1970-01-02T01:02:03.004Z
VEpoch == [t |-> "number", whole |-> 90123004, tenths |-> 0]

\* Date and time texts, and texts that are none.
TSpace == [t |-> "string", v |-> <<"2", "0", "2", "5", "-", "0", "8", "-", "2", "0", " ", "1", "4", ":", "4", "2", ":", "2", "6">>]
TOffsetZero == [t |-> "string", v |-> <<"2", "0", "2", "5", "-", "0", "8", "-", "2", "0", "T", "1", "4", ":", "4", "2", ":", "2", "6", ".", "5", "5", "6", "+", "0", "0", ":", "0", "0">>]
TZulu == [t |-> "string", v |-> <<"2", "0", "2", "5", "-", "0", "8", "-", "2", "0", "T", "1", "4", ":", "4", "2", ":", "2", "6", ".", "5", "5", "6", "Z">>]
TNoOffset == [t |-> "string", v |-> <<"2", "0", "2", "5", "-", "0", "8", "-", "2", "0", "T", "1", "4", ":", "4", "2", ":", "2", "6">>]
TOffsetEast == [t |-> "string", v |-> <<"2", "0", "2", "5", "-", "0", "8", "-", "2", "0", "T", "1", "1", ":", "0", "0", ":", "0", "0", ".", "1", "2", "3", "+", "0", "2", ":", "0", "0">>]
TOffsetYear == [t |-> "string", v |-> <<"2", "0", "2", "5", "-", "0", "1", "-", "0", "1", "T", "0", "0", ":", "3", "0", ":", "0", "0", "+", "0", "2", ":", "0", "0">>]
TOffsetWest == [t |-> "string", v |-> <<"2", "0", "2", "4", "-", "0", "2", "-", "2", "8", "T", "2", "3", ":", "3", "0", ":", "0", "0", "-", "0", "1", ":", "0", "0">>]
TInvalid == [t |-> "string", v |-> <<"i", "n", "v", "a", "l", "i", "d", "-", "d", "a", "t", "e", "-", "s", "t", "r", "i", "n", "g">>]
TNotADate == [t |-> "string", v |-> <<"n", "o", "t", "-", "a", "-", "d", "a", "t", "e">>]
TOutOfRange == [t |-> "string", v |-> <<"2", "0", "2", "5", "-", "1", "3", "-", "4", "5", " ", "0", "0", ":", "0", "0", ":", "0", "0">>]

MapValues ==
    {VNull, VInt, VFrac, VStr, VBytes, VEpoch,
     VBigOne, VBigSmall, VBigPadded, VBigEpoch, VBigBound, VBigBeyond, VBigMax,
     TSpace, TOffsetZero, TZulu, TNoOffset, TOffsetEast, TOffsetYear, TOffsetWest,
     TInvalid, TNotADate, TOutOfRange}

MapInit ==
    /\ pc = [c \in Calls |-> "idle"]
    /\ state = [c \in Calls |-> "none"]
    /\ locked = FALSE
    /\ queue = <<>>
    /\ called = [c \in Calls |-> FALSE]
    /\ inTxn = FALSE
    /\ qpc = [c \in Callers |-> <<>>]
    /\ \E v \in MapValues, type \in ColumnTypes :
          /\ type = "DateTime" /\ v.t = "bigint" => InDateRange(v)
          /\ last = Report("row", 0, [row |-> <<v>>, columnTypes |-> <<type>>],
                           "pending", "none", "none", <<>>, FALSE)

MapRowStep ==
    /\ last.op = "row"
    /\ last' = Report("mapRow", 0, last.arg,
                      MapRow(last.arg.row, last.arg.columnTypes),
                      "none", "none", <<>>, FALSE)
    /\ UNCHANGED <<pc, state, locked, queue, called, inTxn, qpc>>

MapSpec == MapInit /\ [][MapRowStep]_vars

\* The resolver on its own: one column with a declared type, in a result
\* without rows or with one row holding a number.
DeclInit ==
    /\ pc = [c \in Calls |-> "idle"]
    /\ state = [c \in Calls |-> "none"]
    /\ locked = FALSE
    /\ queue = <<>>
    /\ called = [c \in Calls |-> FALSE]
    /\ inTxn = FALSE
    /\ qpc = [c \in Callers |-> <<>>]
    /\ \E d \in DeclTexts, rows \in {<<>>, <<<<VInt>>>>, <<<<VStr>>>>} :
          last = Report("declared", 0, [type |-> d, rows |-> rows], "pending",
                        "none", "none", <<>>, FALSE)

Resolve ==
    /\ last.op = "declared"
    /\ last' = Report("getColumnTypes", 0, last.arg,
                      [resolved |-> MapDeclType(last.arg.type),
                       columnTypes |-> GetColumnTypes(<<last.arg.type>>, last.arg.rows)],
                      "none", "none", <<>>, FALSE)
    /\ UNCHANGED <<pc, state, locked, queue, called, inTxn, qpc>>

DeclSpec == DeclInit /\ [][Resolve]_vars

----------------------------------------------------------------------------
(* The error translator on its own: a native error is raised, and either   *)
(* convertDriverError is applied to it or the catch of an operation hands  *)
(* it to onError.                                                          *)

FailingOps == {"queryRaw", "executeRaw", "executeScript", "commit", "rollback"}

ErrInit ==
    /\ pc = [c \in Calls |-> "idle"]
    /\ state = [c \in Calls |-> "none"]
    /\ locked = FALSE
    /\ queue = <<>>
    /\ called = [c \in Calls |-> FALSE]
    /\ inTxn = FALSE
    /\ qpc = [c \in Callers |-> <<>>]
    /\ \E e \in NativeErrors :
          last = Report("raise", 0, e, "pending", "native", "none", <<>>, FALSE)

\* convertDriverError(error)
Convert ==
    /\ last.op = "raise"
    /\ last' = Report("convertDriverError", 0, last.arg, ConvertDriverError(last.arg),
                      "native", "none", <<>>, FALSE)
    /\ UNCHANGED <<pc, state, locked, queue, called, inTxn, qpc>>

\* catch (e) { this.onError(e) } of operation op
Surface(op) ==
    /\ last.op = "raise"
    /\ last' = Report(op, 0, last.arg, OnErrorThrows(last.arg),
                      "native", "none", <<>>, FALSE)
    /\ UNCHANGED <<pc, state, locked, queue, called, inTxn, qpc>>

ErrNext ==
    \/ Convert
    \/ \E op \in FailingOps : Surface(op)

ErrSpec == ErrInit /\ [][ErrNext]_vars

TypeOK ==
    /\ pc \in [Calls -> {"idle", "waiting", "granted", "returned", "rejected"}]
    /\ state \in [Calls -> {"none", "active", "committed", "rolled_back"}]
    /\ locked \in BOOLEAN
    /\ called \in [Calls -> BOOLEAN]
    /\ inTxn \in BOOLEAN
    /\ \A c \in Callers : qpc[c] \in SqlTexts \cup {<<>>}

----------------------------------------------------------------------------
(* Properties.                                                             *)

Terminal == {"committed", "rolled_back"}

Active == {c \in Calls : state[c] = "active"}

\* Calls granted the lock whose BEGIN has not run yet.
Granted == {c \in Calls : pc[c] = "granted"}

\* The lock has left call c: it is free, or has gone to the head of the queue.
LockPassedOn ==
    /\ queue = <<>> => ~locked'
    /\ queue # <<>> => locked' /\ pc'[Head(queue)] = "granted" /\ queue' = Tail(queue)

\* C1: at most one session is active at any time, and a call about to issue
\* its BEGIN finds no session active: every session granted before it has
\* committed or rolled back and has run its releaser.
C1_OneActiveSession ==
    /\ Cardinality(Active) <= 1
    /\ \A c \in Active : locked
    /\ \A c \in Granted :
          /\ Active = {}
          /\ Granted = {c}
          /\ \A d \in Calls : pc[d] = "returned" => state[d] \in Terminal /\ called[d]

C1_Witness ==
    \E c, d, e \in Calls :
        /\ state[c] = "committed"
        /\ state[d] = "active"
        /\ pc[e] = "waiting"

\* C2 as stated: whenever the lock is held, exactly one session is active.
C2_LockOnlyWhileActive == locked => Cardinality(Active) = 1

\* C2 as amended: the lock is held exactly while one session is active or one
\* call granted the lock has yet to issue its BEGIN, and a session that has
\* left active, by a commit or rollback that succeeded or failed, has run
\* its releaser.
C2_LockHeldByActiveOrGranted ==
    /\ Cardinality(Active \cup Granted) = IF locked THEN 1 ELSE 0
    /\ \A c \in Calls : state[c] \in Terminal => called[c]

C2_Witness ==
    /\ last.op \in {"commit", "rollback"}
    /\ last.err # "none"
    /\ state[last.tx] = "rolled_back"
    /\ ~locked

\* C3: queryRaw or executeRaw invoked on a committed or rolled-back session
\* fails with TransactionAlreadyClosed, sends nothing to the engine and
\* changes nothing, whatever the SQL text.
C3_ClosedSessionRejects ==
    [][\A c \in Calls :
          (/\ last'.op \in {"queryRaw", "executeRaw"}
           /\ last'.tx = c
           /\ state[c] \in Terminal)
          => /\ last'.result = "TransactionAlreadyClosed"
             /\ last'.sent = <<>>
             /\ ~last'.unlock
             /\ UNCHANGED <<pc, state, locked, queue, called, inTxn, qpc>>]_vars

C3_Witness ==
    /\ last.op = "executeRaw"
    /\ last.arg \in {TxtCommit, TxtRollback}
    /\ state[last.tx] = "rolled_back"
    /\ last.result = "TransactionAlreadyClosed"

\* C4: commit() on a committed or rolled-back session resolves, sends no
\* statement, leaves the session state as it is and does not touch the lock.
C4_CommitIdempotent ==
    [][\A c \in Calls :
          (/\ last'.op = "commit"
           /\ last'.tx = c
           /\ state[c] \in Terminal)
          => /\ last'.result = "ok"
             /\ last'.sent = <<>>
             /\ ~last'.unlock
             /\ UNCHANGED <<pc, state, locked, queue, called, inTxn, qpc>>]_vars

C4_Witness ==
    /\ last.op = "commit"
    /\ last.result = "ok"
    /\ last.sent = <<>>
    /\ state[last.tx] = "rolled_back"
    /\ inTxn

\* C5: rollback() on a committed or rolled-back session resolves, sends no
\* statement and changes no state; it neither releases nor takes the lock, so
\* a later session that holds it keeps it.
C5_RollbackAfterCloseIsNoOp ==
    [][\A c \in Calls :
          (/\ last'.op = "rollback"
           /\ last'.tx = c
           /\ state[c] \in Terminal)
          => /\ last'.result = "ok"
             /\ last'.sent = <<>>
             /\ ~last'.unlock
             /\ UNCHANGED <<pc, state, locked, queue, called, inTxn, qpc>>]_vars

C5_Witness ==
    /\ last.op = "rollback"
    /\ last.result = "ok"
    /\ last.sent = <<>>
    /\ state[last.tx] = "committed"
    /\ locked
    /\ \E d \in Calls : d # last.tx /\ state[d] = "active"

\* C6: a session starts active, leaves active at most once, and once
\* committed or rolled back keeps that state through every later step.
C6_StateMonotone ==
    [][\A c \in Calls :
          /\ state[c] = "none" => state'[c] \in {"none", "active"}
          /\ state[c] = "committed" => state'[c] = "committed"
          /\ state[c] = "rolled_back" => state'[c] = "rolled_back"
          /\ state'[c] = "none" => state[c] = "none"]_vars

C6_Witness ==
    /\ last.op \in {"commit", "executeRaw"}
    /\ last.arg \in {<<>>, TxtCommit}
    /\ state[last.tx] = "rolled_back"
    /\ \E d \in Calls : d # last.tx /\ state[d] = "active" /\ inTxn

\* C7: commit() on an active session whose native COMMIT fails leaves the
\* session rolled_back, releases the lock and rejects: with SocketTimeout for
\* the busy code, with the engine's own error for an unmapped one.
C7_FailedCommitRollsBack ==
    [][\A c \in Calls :
          (/\ last'.op = "commit"
           /\ last'.tx = c
           /\ state[c] = "active"
           /\ last'.err # "none")
          => /\ last'.sent = <<"COMMIT">>
             /\ state'[c] = "rolled_back"
             /\ last'.unlock
             /\ called'[c]
             /\ LockPassedOn
             /\ last'.err = "SQLITE_BUSY" => last'.result = "SocketTimeout"
             /\ last'.err # "SQLITE_BUSY" => last'.result = last'.err]_vars

C7_Witness ==
    /\ last.op = "commit"
    /\ last.err = "SQLITE_BUSY"
    /\ last.result = "SocketTimeout"
    /\ state[last.tx] = "rolled_back"
    /\ called[last.tx]

\* C8: rollback() on an active session sends one ROLLBACK, leaves the session
\* rolled_back and releases the lock, also when the ROLLBACK fails, and then
\* the error reaches the caller.
C8_RollbackOnActive ==
    [][\A c \in Calls :
          (/\ last'.op = "rollback"
           /\ last'.tx = c
           /\ state[c] = "active")
          => /\ last'.sent = <<"ROLLBACK">>
             /\ state'[c] = "rolled_back"
             /\ last'.unlock
             /\ called'[c]
             /\ LockPassedOn
             /\ last'.err = "none" => last'.result = "ok"
             /\ last'.err # "none" => last'.result \notin {"ok", "pending"}]_vars

C8_Witness ==
    /\ last.op = "rollback"
    /\ last.err = "SQLITE_ERROR"
    /\ last.result = "SQLITE_ERROR"
    /\ state[last.tx] = "rolled_back"
    /\ ~locked

\* C9: startTransaction with a level other than SERIALIZABLE or none fails at
\* once with InvalidIsolationLevel: no BEGIN, no session, no change to the
\* lock or its queue, no waiting, also while another session holds the lock.
C9_InvalidLevelRejected ==
    [][(/\ last'.op = "startTransaction"
        /\ last'.arg \notin {<<>>, <<"SERIALIZABLE">>})
       => /\ last'.result = "InvalidIsolationLevel"
          /\ last'.sent = <<>>
          /\ ~last'.unlock
          /\ UNCHANGED <<pc, state, locked, queue, called, inTxn, qpc>>]_vars

C9_Witness ==
    /\ last.op = "startTransaction"
    /\ last.result = "InvalidIsolationLevel"
    /\ pc[last.tx] = "idle"
    /\ locked
    /\ \E d \in Calls : state[d] = "active"

\* C10 as stated: a startTransaction whose BEGIN fails never acquired the
\* lock, so it rejects without a release.
C10_BeginFailureNeverHeldLock ==
    [][\A c \in Calls :
          (pc[c] # "rejected" /\ pc'[c] = "rejected")
          => pc[c] # "granted" /\ ~last'.unlock]_vars

\* C10 as amended: a startTransaction whose BEGIN fails rejects with the
\* translated error and creates no session; it had acquired the lock before
\* the BEGIN and releases it before it rejects.
C10_BeginFailureReleasesLock ==
    [][\A c \in Calls :
          (pc[c] # "rejected" /\ pc'[c] = "rejected")
          => /\ pc[c] = "granted"
             /\ locked
             /\ last'.op = "startTransaction"
             /\ last'.sent = <<"BEGIN">>
             /\ last'.err # "none"
             /\ last'.result \notin {"ok", "pending"}
             /\ state'[c] = "none"
             /\ state' = state
             /\ last'.unlock
             /\ called'[c]
             /\ LockPassedOn]_vars

C10_Witness ==
    /\ last.op = "startTransaction"
    /\ last.sent = <<"BEGIN">>
    /\ last.err = "SQLITE_ERROR"
    /\ pc[last.tx] = "rejected"
    /\ state[last.tx] = "none"
    /\ called[last.tx]

\* C11: a raw COMMIT or ROLLBACK statement given to executeRaw on an active
\* session is redirected to commit()/rollback(): the engine gets that one
\* statement, the session leaves active (committed, or rolled_back, when the
\* statement succeeds), the releaser runs, and executeRaw answers 0.
C11_RawTerminatorIntercepted ==
    [][\A c \in Calls :
          (/\ last'.op = "executeRaw"
           /\ last'.tx = c
           /\ state[c] = "active"
           /\ EngineKind(last'.arg) \in {"COMMIT", "ROLLBACK"})
          => /\ last'.sent = <<EngineKind(last'.arg)>>
             /\ state'[c] \in Terminal
             /\ last'.unlock
             /\ called'[c]
             /\ last'.err = "none"
                  => /\ last'.ret = "0"
                     /\ state'[c] = IF EngineKind(last'.arg) = "COMMIT"
                                    THEN "committed" ELSE "rolled_back"]_vars

\* C12: the lock is granted in the order it was requested.  Calls are numbered
\* in request order, so: the queue holds the waiting calls oldest first, and
\* whenever a call has been granted the lock, every call that requested it
\* earlier has already issued its BEGIN.
C12_GrantsInRequestOrder ==
    /\ \A i, j \in 1..Len(queue) : i < j => queue[i] < queue[j]
    /\ \A c \in Calls : pc[c] = "waiting" <=> \E i \in 1..Len(queue) : queue[i] = c
    /\ \A a, b \in Calls :
          (a < b /\ pc[b] \in {"granted", "returned", "rejected"})
          => pc[a] \in {"returned", "rejected"}

C12_Witness ==
    \E a, b \in Calls :
        /\ a < b
        /\ last.op \in {"commit", "rollback"}
        /\ last.unlock
        /\ last.tx < a
        /\ pc[a] = "granted"
        /\ pc[b] = "waiting"
        /\ queue = <<b>>

\* C13: under fairness, with every active session eventually ended by its
\* owner, every startTransaction waiting on the lock eventually returns an
\* active session.
C13_WaiterGetsSession ==
    \A c \in Calls : (pc[c] = "waiting") ~> (state[c] = "active")

\* The engine's transaction flag after the statements of ran, from txn.
RECURSIVE FlagAfter(_, _)
FlagAfter(ran, txn) ==
    IF ran = <<>> THEN txn
    ELSE IF ran[Len(ran)] = "BEGIN;" THEN TRUE
    ELSE IF ran[Len(ran)] = "COMMIT;" THEN FALSE
    ELSE FlagAfter(SubSeq(ran, 1, Len(ran) - 1), txn)

\* C14: executeScript gives a script that is not blank to the engine, which
\* runs its statements in order up to the first that fails; that failure is
\* surfaced translated, nothing after it runs, and what ran before it stays
\* in effect (no rollback is sent).  A script of blanks only, or empty,
\* resolves without a call to the engine.
C14_ScriptStopsAtFirstFailure ==
    [][last'.op = "executeScript"
       => LET script == last'.arg
              stmts == SelectSeq(script, LAMBDA t : t # " ")
              sent == last'.sent
          IN  /\ UNCHANGED <<pc, state, locked, queue, called, qpc>>
              /\ ~last'.unlock
              /\ stmts = <<>>
                   => /\ sent = <<>>
                      /\ last'.result = "ok"
                      /\ last'.ret = "void"
                      /\ inTxn' = inTxn
              /\ stmts # <<>>
                   => /\ sent # <<>>
                      /\ sent[1] = "exec"
                      /\ Len(sent) - 1 <= Len(stmts)
                      /\ Tail(sent) = SubSeq(stmts, 1, Len(sent) - 1)
                      /\ last'.err = "none"
                           => /\ Tail(sent) = stmts
                              /\ last'.result = "ok"
                              /\ last'.ret = "void"
                              /\ inTxn' = FlagAfter(stmts, inTxn)
                      /\ last'.err # "none"
                           => /\ Len(sent) >= 2
                              /\ last'.ret = "none"
                              /\ last'.result \notin {"ok", "pending"}
                              /\ sent[Len(sent)] = "INSERT INTO nonexistent_table VALUES (1);"
                                   => last'.result = "TableDoesNotExist"
                              /\ sent[Len(sent)] \in {"BEGIN;", "COMMIT;"}
                                   => last'.result = last'.err
                              /\ \A i \in 2..(Len(sent) - 1) :
                                    sent[i] # "INSERT INTO nonexistent_table VALUES (1);"
                              /\ inTxn' = FlagAfter(SubSeq(sent, 2, Len(sent) - 1), inTxn)]_vars

C14_Witness ==
    /\ last.op = "executeScript"
    /\ last.arg = <<StmtBegin, StmtInsert, StmtInsertNoTable>>
    /\ last.sent = <<"exec", StmtBegin, StmtInsert, StmtInsertNoTable>>
    /\ last.result = "TableDoesNotExist"
    /\ inTxn

WellFormed(e) == "code" \in DOMAIN e /\ "message" \in DOMAIN e

\* C15: the translator changes nothing and answers by the code: unique and
\* primary-key give UniqueConstraintViolation, not-null gives
\* NullConstraintViolation, both with the column names of the message's list
\* as fields; foreign-key gives ForeignKeyConstraintViolation; busy gives
\* SocketTimeout.
C15_ConstraintCodesMapped ==
    [][last'.op = "convertDriverError" /\ WellFormed(last'.arg)
       => LET e == last'.arg
              r == last'.result
          IN  /\ last'.arg = last.arg
              /\ UNCHANGED <<pc, state, locked, queue, called, inTxn, qpc>>
              /\ e.code \in {"SQLITE_CONSTRAINT_UNIQUE", "SQLITE_CONSTRAINT_PRIMARYKEY"}
                   => ~r.thrown /\ r.kind = "UniqueConstraintViolation"
              /\ e.code = "SQLITE_CONSTRAINT_NOTNULL"
                   => ~r.thrown /\ r.kind = "NullConstraintViolation"
              /\ e.code \in {"SQLITE_CONSTRAINT_UNIQUE", "SQLITE_CONSTRAINT_PRIMARYKEY",
                              "SQLITE_CONSTRAINT_NOTNULL"}
                   => \A p \in {MsgUnique, MsgPrimaryKey, MsgNotNull}, f \in FieldLists :
                         e.message = ConstraintMessage(p, "users", f) => r.detail = f
              /\ e.code = "SQLITE_CONSTRAINT_FOREIGNKEY"
                   => ~r.thrown /\ r.kind = "ForeignKeyConstraintViolation"
              /\ e.code = "SQLITE_BUSY"
                   => ~r.thrown /\ r.kind = "SocketTimeout"]_vars

C15_Witness ==
    /\ last.op = "convertDriverError"
    /\ last.arg = [code |-> "SQLITE_CONSTRAINT_NOTNULL",
                   message |-> <<MsgNotNull, Blank, "users", ".", "name", ",", Blank,
                                 "users", ".", "email">>]
    /\ last.result.kind = "NullConstraintViolation"
    /\ last.result.detail = <<"name", "email">>

MappedCodes ==
    {"SQLITE_CONSTRAINT_UNIQUE", "SQLITE_CONSTRAINT_PRIMARYKEY",
     "SQLITE_CONSTRAINT_NOTNULL", "SQLITE_CONSTRAINT_FOREIGNKEY", "SQLITE_BUSY"}

\* C16: with a code that is none of the constraint and busy codes, the
\* message "no such table: X" gives TableDoesNotExist with table X, and
\* "no such column: X" or "... has no column named X" gives ColumnNotFound
\* with column X.
C16_MissingTableOrColumn ==
    (/\ last.op = "convertDriverError"
     /\ WellFormed(last.arg)
     /\ last.arg.code \notin MappedCodes)
    => LET m == last.arg.message
           r == last.result
       IN  /\ \A t \in Tables :
                  m = <<"no such table:", Blank, t>>
                  => ~r.thrown /\ r.kind = "TableDoesNotExist" /\ r.detail = <<t>>
           /\ \A c \in Columns :
                  m = <<"no such column:", Blank, c>>
                  => ~r.thrown /\ r.kind = "ColumnNotFound" /\ r.detail = <<c>>
           /\ \A t \in Tables, c \in Columns :
                  m = <<"table", Blank, t, Blank, "has no column named", Blank, c>>
                  => ~r.thrown /\ r.kind = "ColumnNotFound" /\ r.detail = <<c>>

C16_Witness ==
    /\ last.op = "convertDriverError"
    /\ last.arg = [code |-> "SQLITE_ERROR",
                   message |-> <<"table", Blank, "users", Blank, "has no column named",
                                 Blank, "email">>]
    /\ last.result.kind = "ColumnNotFound"
    /\ last.result.detail = <<"email">>

\* The error matches no mapping: it lacks a code or a message, or its code
\* is unmapped and its message names no missing table or column.
Unmapped(e) ==
    \/ ~WellFormed(e)
    \/ /\ e.code \notin MappedCodes
       /\ e.message[1] \notin {MsgNoSuchTable, MsgNoSuchColumn}
       /\ \A i \in 1..Len(e.message) : e.message[i] # MsgHasNoColumn

\* C17: an error that matches no mapping is thrown again as it came, by the
\* translator and by onError; and the catch of queryRaw, executeRaw,
\* executeScript, commit or rollback always rejects, with the translated
\* error or the original one, and never resolves.
C17_UnmappedRethrown ==
    /\ (last.op = "convertDriverError" /\ Unmapped(last.arg))
          => last.result.thrown /\ last.result.detail = last.arg
    /\ last.op \in FailingOps
          => /\ last.result.thrown
             /\ last.ret = "none"
             /\ Unmapped(last.arg)
                  => last.result.kind = "none" /\ last.result.detail = last.arg
             /\ ~Unmapped(last.arg)
                  => last.result.kind \notin {"none", "ok"}

C17_Witness ==
    /\ last.op \in {"commit", "executeScript"}
    /\ last.arg \in {[someProperty |-> "value"],
                      [code |-> "UNKNOWN_ERROR", message |-> MsgUnknown]}
    /\ last.result.thrown
    /\ last.result.detail = last.arg

\* C18: a result has one type for each of its columns, and every row is
\* marshalled with that one vector; a column whose declared type is
\* recognized has the type resolved from it whatever its values, and a
\* column with no declared type, or one that is not recognized, has the type
\* inferred from its values.
C18_OneTypePerColumn ==
    last.op = "queryRaw"
    => LET in == last.arg
           out == last.result
           n == Len(in.types)
       IN  /\ Len(out.columnNames) = n
           /\ Len(out.columnTypes) = Len(out.columnNames)
           /\ Len(out.rows) = Len(in.rows)
           /\ \A i \in 1..n :
                 LET kinds == {in.rows[r][i].t : r \in 1..Len(in.rows)}
                 IN  IF in.catalog = "ok" /\ in.types[i] \in {<<"TEXT">>, <<"INTEGER">>}
                     THEN out.columnTypes[i] =
                              IF in.types[i] = <<"TEXT">> THEN "Text" ELSE "Int32"
                     ELSE out.columnTypes[i] =
                              IF kinds \subseteq {"null"} THEN "Int32"
                              ELSE IF kinds \subseteq {"null", "number"}
                              THEN "UnknownNumber"
                              ELSE "Text"
           /\ \A r \in 1..Len(in.rows) :
                 /\ Len(out.rows[r]) = n
                 /\ \A i \in 1..n :
                       out.rows[r][i] =
                           IF out.columnTypes[i] = "Int32" /\ in.rows[r][i].t = "number"
                           THEN [t |-> "number", whole |-> in.rows[r][i].whole, tenths |-> 0]
                           ELSE in.rows[r][i]

C18_Witness ==
    /\ last.op = "queryRaw"
    /\ last.arg.catalog = "ok"
    /\ last.arg.types = <<<<"TEXT">>, <<>>>>
    /\ last.arg.rows = <<<<VFrac, VFrac>>, <<VFrac, VNull>>>>
    /\ last.result.columnTypes = <<"Text", "UnknownNumber">>

\* C19: a result without rows still has a type for every column: the one
\* resolved from the declared type where that is recognized, Int32 where
\* there is none; and it has all its column names.
C19_ZeroRowTypes ==
    (last.op = "queryRaw" /\ Len(last.arg.rows) = 0)
    => LET in == last.arg
           out == last.result
           n == Len(in.types)
       IN  /\ out.columnNames = [i \in 1..n |-> i]
           /\ out.rows = <<>>
           /\ Len(out.columnTypes) = n
           /\ \A i \in 1..n :
                 /\ in.catalog = "ok" /\ in.types[i] = <<"TEXT">>
                      => out.columnTypes[i] = "Text"
                 /\ in.catalog = "ok" /\ in.types[i] = <<"INTEGER">>
                      => out.columnTypes[i] = "Int32"
                 /\ in.catalog # "ok" \/ in.types[i] = <<>>
                      => out.columnTypes[i] = "Int32"

C19_Witness ==
    /\ last.op = "queryRaw"
    /\ last.arg.catalog = "ok"
    /\ last.arg.types = <<<<"TEXT">>, <<>>>>
    /\ last.arg.rows = <<>>
    /\ last.result.columnTypes = <<"Text", "Int32">>
    /\ last.result.columnNames = <<1, 2>>

RECURSIVE LimbsOf(_)
LimbsOf(digits) ==
    IF Len(digits) <= 8 THEN <<ToNumber(digits)>>
    ELSE Append(LimbsOf(SubSeq(digits, 1, Len(digits) - 8)),
                ToNumber(SubSeq(digits, Len(digits) - 7, Len(digits))))

\* C22: a 64-bit integer in a column that is not DateTime is marshalled to
\* the string of its exact decimal digits, beyond 2^53 and in an Int64
\* column too: the digits are digits only, without a leading zero, and stand
\* for the very value.
C22_BigIntExactDigits ==
    last.op = "mapRow" /\ last.arg.row[1].t = "bigint"
                       /\ last.arg.columnTypes[1] # "DateTime"
    => LET out == last.result[1]
       IN  /\ out.t = "string"
           /\ out.v # <<>>
           /\ \A k \in 1..Len(out.v) : IsDigit(out.v[k])
           /\ Len(out.v) > 1 => out.v[1] # "0"
           /\ LimbsOf(out.v) = last.arg.row[1].limbs

C22_Witness ==
    /\ last.op = "mapRow"
    /\ last.arg.row = <<VBigMax>>
    /\ last.arg.columnTypes = <<"Int64">>
    /\ last.result = <<[t |-> "string", v |-> <<"9", "2", "2", "3", "3", "7", "2", "0", "3", "6", "8", "5", "4", "7", "7", "5", "8", "0", "7">>]>>

\* The text has the form YYYY-MM-DDTHH:mm:ss.sssZ with every field in range.
IsCanonical(s) ==
    /\ Len(s) = 24
    /\ \A k \in (1..23) \ {5, 8, 11, 14, 17, 20} : IsDigit(s[k])
    /\ s[5] = "-" /\ s[8] = "-" /\ s[11] = "T" /\ s[14] = ":" /\ s[17] = ":"
    /\ s[20] = "." /\ s[24] = "Z"
    /\ ToNumber(SubSeq(s, 6, 7)) \in 1..12 /\ ToNumber(SubSeq(s, 9, 10)) \in 1..31
    /\ ToNumber(SubSeq(s, 12, 13)) <= 23 /\ ToNumber(SubSeq(s, 15, 16)) <= 59
    /\ ToNumber(SubSeq(s, 18, 19)) <= 59

\* The milliseconds into its day that a canonical text denotes.
CanonicalMs(s) ==
    ((ToNumber(SubSeq(s, 12, 13)) * 60 + ToNumber(SubSeq(s, 15, 16))) * 60
     + ToNumber(SubSeq(s, 18, 19))) * 1000 + ToNumber(SubSeq(s, 21, 23))

C23_LookupFailureNotFatal ==
    last.op = "queryRaw" /\ last.arg.catalog = "fails"
    => LET in == last.arg
           n == Len(in.types)
       IN  /\ last.err = "none" /\ last.ret = "resultset"
           /\ Len(last.result.columnNames) = n
           /\ Len(last.result.rows) = Len(in.rows)
           /\ Len(last.result.columnTypes) = n
           /\ \A i \in 1..n :
                 LET kinds == {in.rows[r][i].t : r \in 1..Len(in.rows)}
                 IN  last.result.columnTypes[i] =
                       IF kinds \subseteq {"null"} THEN "Int32"
                       ELSE IF kinds \subseteq {"null", "number"} THEN "UnknownNumber"
                       ELSE "Text"

C23_Witness ==
    /\ last.op = "queryRaw"
    /\ last.arg.catalog = "fails"
    /\ last.arg.types = <<<<"TEXT">>, <<"INTEGER">>>>
    /\ last.arg.rows = <<<<VFrac, VStr>>>>
    /\ last.ret = "resultset"
    /\ last.result.columnTypes = <<"UnknownNumber", "Text">>

\* C26: queryRaw on a statement without result columns runs it once and
\* answers no column names, no types and no rows; the catalog is not asked,
\* whether or not the text names a table.
C26_NoColumnsShortCircuit ==
    last.op = "queryRaw" /\ last.arg.types = <<>>
    => /\ last.sent = <<"run">>
       /\ last.err = "none" /\ last.ret = "resultset"
       /\ last.result = [columnNames |-> <<>>, columnTypes |-> <<>>, rows |-> <<>>]

C26_Witness ==
    /\ last.op = "queryRaw"
    /\ last.arg = [catalog |-> "ok", types |-> <<>>, rows |-> <<>>]
    /\ last.sent = <<"run">>
    /\ last.result.columnTypes = <<>>

\* A statement step on session c that the engine refused.
FailedStatement(r, c) ==
    /\ r.tx = c
    /\ r.op \in {"queryRaw", "queryRaw/resume", "executeRaw"}
    /\ r.err # "none"

\* C27 as stated: a queryRaw or executeRaw that fails natively on an active
\* session surfaces the error and leaves the session active and the lock
\* held, without release.
C27_NativeFailureKeepsSession ==
    [][\A c \in Calls :
          FailedStatement(last', c) /\ state[c] = "active"
          => /\ last'.ret = "none" /\ last'.result \notin {"ok", "pending"}
             /\ state'[c] = "active"
             /\ locked' /\ ~last'.unlock /\ ~called'[c]]_vars

\* C27 as amended: a queryRaw or executeRaw, other than the COMMIT or
\* ROLLBACK that executeRaw redirects, that fails natively on an active
\* session surfaces the error and changes neither a session state nor the
\* lock, its queue or a releaser; the session still accepts statements, and
\* a commit() or rollback() that follows ends it and releases the lock.
C27_NativeFailureKeepsSessionUnlessTerminator ==
    [][\A c \in Calls :
          /\ (/\ FailedStatement(last', c) /\ state[c] = "active"
              /\ ~(last'.op = "executeRaw"
                    /\ NormalizedSql(last'.arg) \in {<<"COMMIT">>, <<"ROLLBACK">>}))
             => /\ last'.ret = "none" /\ last'.result \notin {"ok", "pending"}
                /\ state' = state /\ ~TxClosed(c)'
                /\ locked /\ locked' /\ queue' = queue /\ pc' = pc
                /\ called' = called /\ ~called[c] /\ ~last'.unlock
          /\ (/\ FailedStatement(last, c) /\ state[c] = "active"
              /\ last'.tx = c /\ last'.op \in {"commit", "rollback"})
             => /\ state'[c] \in Terminal
                /\ last'.sent = <<IF last'.op = "commit" THEN "COMMIT" ELSE "ROLLBACK">>
                /\ last'.unlock /\ called'[c] /\ LockPassedOn]_vars

C27_Witness ==
    /\ FailedStatement(last, last.tx)
    /\ last.op = "executeRaw" /\ last.arg = TxtUpdate /\ last.err = "SQLITE_BUSY"
    /\ state[last.tx] = "active" /\ locked /\ ~called[last.tx]
    /\ inTxn

\* C28: every statement a session hands to the engine (the catalog lookup
\* and the read of queryRaw, the statement of executeRaw, the COMMIT or
\* ROLLBACK of the session) is handed over while that session is active and
\* no other session is.
C28_NoStatementAfterClose ==
    [][\A c \in Calls :
          (/\ last'.tx = c
           /\ last'.op \in {"queryRaw", "queryRaw/resume", "executeRaw",
                             "commit", "rollback"}
           /\ last'.sent # <<>>)
          => /\ state[c] = "active"
             /\ \A d \in Calls \ {c} : state[d] # "active"]_vars

\* The report is of commit(), rollback(), or an executeRaw that is redirected
\* to one of them, on session c.
TerminatorCall(r, c) ==
    /\ r.tx = c
    /\ \/ r.op \in {"commit", "rollback"}
       \/ r.op = "executeRaw"
          /\ NormalizedSql(r.arg) \in {<<"COMMIT">>, <<"ROLLBACK">>}

\* C29: of the commit(), rollback(), executeRaw('COMMIT') and
\* executeRaw('ROLLBACK') calls on one session, in any order, the one that
\* finds it active issues the one native COMMIT or ROLLBACK and invokes the
\* releaser, for the first time; every other issues nothing, releases
\* nothing and changes neither the lock nor any session.  A session that is
\* closed has run its releaser, one that is active has not.
C29_OneTerminatorOneRelease ==
    /\ [](\A c \in Calls :
            /\ state[c] \in Terminal => called[c]
            /\ state[c] = "active" => ~called[c] /\ locked)
    /\ [][\A c \in Calls :
            /\ TerminatorCall(last', c) /\ state[c] = "active"
               => /\ last'.sent \in {<<"COMMIT">>, <<"ROLLBACK">>}
                  /\ last'.unlock /\ ~called[c] /\ called'[c]
                  /\ state'[c] \in Terminal
                  /\ LockPassedOn
            /\ TerminatorCall(last', c) /\ state[c] # "active"
               => /\ last'.sent = <<>> /\ ~last'.unlock
                  /\ state' = state /\ called' = called
                  /\ locked' = locked /\ queue' = queue /\ pc' = pc
            /\ state[c] \in Terminal => state'[c] = state[c]]_vars

\* C29, the case: a rollback() that issues nothing on a session closed
\* before, while a later session holds the lock.
C29_Witness ==
    /\ last.op = "rollback" /\ last.sent = <<>> /\ ~last.unlock
    /\ state[last.tx] = "committed" /\ called[last.tx]
    /\ locked
    /\ \E d \in Calls : d > last.tx /\ state[d] = "active"

\* C30: the engine has a transaction open exactly when some session is
\* active.
C30_SessionAgreesWithEngine ==
    inTxn <=> \E c \in Calls : state[c] = "active"

\* C25: queryRaw, executeRaw and executeScript on the adapter never ask for
\* the lock and never wait: whatever the lock and the sessions are, the call
\* hands its statement to the engine in the step it is made in (queryRaw
\* after its catalog lookup, when its text names a table), and it leaves the
\* lock, its queue, the releasers, every call and every session as they
\* were.
C25_AdapterCallsBypassLock ==
    [][(/\ last'.tx = 0
        /\ last'.op \in {"queryRaw", "queryRaw/resume", "executeRaw",
                          "executeScript"})
       => /\ UNCHANGED <<pc, state, locked, queue, called>>
          /\ ~last'.unlock
          /\ IF last'.op = "queryRaw" /\ HasColumns(last'.arg)
                                      /\ GetTableFromQuery(last'.arg)
             THEN last'.result = "pending" /\ last'.sent = <<"PRAGMA">>
             ELSE /\ last'.result # "pending"
                  /\ last'.sent = <<>>
                        <=> last'.op = "executeScript" /\ ScriptIsEmpty(last'.arg)]_vars

\* C25, the case: a statement of the adapter has run while a session is
\* active, the lock is held and another call waits for it.
C25_Witness ==
    /\ last.tx = 0 /\ last.op = "executeRaw"
    /\ last.sent = <<"WRITE">> /\ last.err = "none"
    /\ locked /\ queue # <<>>
    /\ \E c \in Calls : state[c] = "active"

====
